---------------------------- MODULE Spec2Model ----------------------------
(***************************************************************************)
(* A model of flogger's DataLogger (src/flogger/logger.py): the two data   *)
(* stores, the four pool policies, the units of work _push/_dump/_reset    *)
(* and the pending-result list emptied by wait().                          *)
(*                                                                         *)
(* One caller thread issues the facade calls.  Under the sync and silent   *)
(* pools a unit runs (or is dropped) inside the call; under the thread     *)
(* pool it is run by one of n_par workers, one store call per step;        *)
(* under the process pool the unit's arguments cannot be transferred to a  *)
(* worker (the shared store holds its Manager) and the unit fails.         *)
(***************************************************************************)
EXTENDS Integers, Sequences, FiniteSets, TLC

(* ------------------------------ bounds --------------------------------- *)
\* units of work submitted over the logger's lifetime
MaxUnits == 2
\* successful declare calls (length of the entries list)
MaxDeclares == 2
\* units of work submitted where set_name and set_path are called too
ConfigUnits == 1
\* append_data calls on one entry since its declaration or last clear_data,
\* where the two stores are called directly
MaxAppends == 3

\* entry names; "entry" is the literal that declare() tests (line 396)
EntryNames == {"a", "entry"}
\* explicit time keys a caller passes to push
Times == {1}
\* push(entry, value, time=None)
NoTime == -1
\* handlers: "ok" returns, "bad" raises
Handlers == {"ok", "bad"}
\* the (on_push, on_dump, on_reset) triples a caller declares with
DeclareArgs ==
    { <<<< >>, << >>, << >>>>,
      <<<<"bad", "ok">>, <<"ok">>, <<"ok", "bad">>>> }
PoolKinds == {"sync", "silent", "thread", "process"}
\* pool arguments a caller passes to set_pool; "other" is an unknown kind
PoolArgs == PoolKinds \cup {"other"}
\* the pool arguments that keep the logger on SyncPool or SilentPool
InlineArgs == {"sync", "silent", "other"}
NPars == {1, 2}
\* the keys and the values append_data is called with directly
StoreKeys == {0, 1}
StoreValues == {1, 2}
LoggerNames == {"data-logger", "n1"}
Paths == {".", "p1"}

VARIABLES
    pool,       \* self._pool: [kind, n]
    store,      \* self._store
    units,      \* every unit of work submitted so far, in submission order
    results,    \* self._results: indices into units
    caller,     \* "idle", or "waiting" inside wait()'s sleep
    err,        \* what the caller's latest call raised: "none", or the
                \* exception's message (for a KeyError, "KeyError")
    twin        \* a SynchronousDataStore of its own, which SpecStores gives
                \* the calls it gives to store

vars == <<pool, store, units, results, caller, err, twin>>

(* --------------------------- small helpers ----------------------------- *)
Min(S) == CHOOSE x \in S : \A y \in S : x <= y

RECURSIVE SortedSeq(_)
SortedSeq(S) == IF S = {} THEN << >> ELSE <<Min(S)>> \o SortedSeq(S \ {Min(S)})

Put(f, k, v) == (k :> v) @@ f

EmptyMap == [k \in {} |-> 0]

Count(seq, x) == Cardinality({i \in DOMAIN seq : seq[i] = x})

(* ----------------------------- the stores ------------------------------ *)
\* SynchronousDataStore.__init__ / AsynchronousDataStore.__init__
NewStore(variant) ==
    [ variant |-> variant,
      name |-> "data-logger",
      path |-> ".",
      entries |-> << >>,
      data |-> EmptyMap,
      proxied |-> EmptyMap,     \* data[e] is the mapping declare_entry made
                                \* (in the shared store: a Manager proxy)
      lockers |-> EmptyMap,
      counters |-> EmptyMap,
      on_push_callables |-> EmptyMap,
      on_reset_callables |-> EmptyMap,
      on_dump_callables |-> EmptyMap ]

SynchronousDataStore == NewStore("local")
AsynchronousDataStore == NewStore("shared")

is_empty(st) == Len(st.entries) = 0

has_entry(st, entry) == \E i \in DOMAIN st.entries : st.entries[i] = entry

\* dict lookups st.x[entry] raise KeyError on a name never declared
known(st, entry) == entry \in DOMAIN st.counters

\* a declare_entry that gives every entry the same lock
declare_entry_one_lock(st, entry, on_push, on_dump, on_reset) ==
    [ st EXCEPT
        !.entries = Append(@, entry),
        !.lockers = Put(@, entry, 1),
        !.data = Put(@, entry, EmptyMap),
        !.proxied = Put(@, entry, TRUE),
        !.counters = Put(@, entry, 0),
        !.on_push_callables = Put(@, entry, on_push),
        !.on_reset_callables = Put(@, entry, on_reset),
        !.on_dump_callables = Put(@, entry, on_dump) ]

\* one RLock per declaration: lock k is the one made by the k-th
\* declare_entry on this store
declare_entry(st, entry, on_push, on_dump, on_reset) ==
    [ st EXCEPT
        !.entries = Append(@, entry),
        !.lockers = Put(@, entry, Len(st.entries) + 1),
        !.data = Put(@, entry, EmptyMap),
        !.proxied = Put(@, entry, TRUE),
        !.counters = Put(@, entry, 0),
        !.on_push_callables = Put(@, entry, on_push),
        !.on_reset_callables = Put(@, entry, on_reset),
        !.on_dump_callables = Put(@, entry, on_dump) ]

get_counter(st, entry) == st.counters[entry]

get_data(st, entry) == st.data[entry]

\* an item assignment that keeps the value a key already has
set_item_keep_first(st, entry, time, value) ==
    IF time \in DOMAIN st.data[entry] THEN st
    ELSE [st EXCEPT !.data[entry] = Put(@, time, value)]

\* self._managed.data[entry][time] = data.  In the shared store the mapping
\* that clear_data put there is a plain dict inside a managed dict: the
\* lookup returns a copy, and the item assignment is made on the copy.
set_item(st, entry, time, value) ==
    IF st.variant = "shared" /\ ~st.proxied[entry]
    THEN st
    ELSE [st EXCEPT !.data[entry] = Put(@, time, value)]

\* self._managed.counters[entry] = c
set_counter(st, entry, c) == [st EXCEPT !.counters[entry] = c]

append_data(st, entry, time, value) ==
    LET s1 == set_item(st, entry, time, value)
    IN  set_counter(s1, entry, get_counter(s1, entry) + 1)

\* self._managed.data[entry] = dict()
clear_item(st, entry) ==
    [st EXCEPT !.data[entry] = EmptyMap, !.proxied[entry] = FALSE]

\* a clear_data that leaves the counter as it is
clear_data_keeps_counter(st, entry) == clear_item(st, entry)

clear_data(st, entry) == set_counter(clear_item(st, entry), entry, 0)

(* ------------------------------ the pools ------------------------------ *)
\* ThreadPool(n_par) has n_par workers; SyncPool() and SilentPool() take no
\* argument.  (Pool(n_par): no task reaches a worker process, see take, and
\* their number is left out.)
NewPool(kind, n_par) ==
    [kind |-> kind, n |-> IF kind = "thread" THEN n_par ELSE 0]

(* ------------------------------- Init ---------------------------------- *)

Init ==
    /\ pool = NewPool("sync", 5)
    /\ store = SynchronousDataStore
    /\ units = << >>
    /\ results = << >>
    /\ caller = "idle"
    /\ err = "none"
    /\ twin = SynchronousDataStore

(* -------------------------- configuration ------------------------------ *)
\* set_path without its test of is_empty
set_path_unguarded(path) ==
    /\ caller = "idle"
    /\ store' = [store EXCEPT !.path = path]
    /\ err' = "none"
    /\ UNCHANGED <<pool, units, results, caller, twin>>

set_path(path) ==
    /\ caller = "idle"
    /\ IF ~is_empty(store)
       THEN /\ err' = "path after entries"
            /\ UNCHANGED store
       ELSE /\ store' = [store EXCEPT !.path = path]
            /\ err' = "none"
    /\ UNCHANGED <<pool, units, results, caller, twin>>

get_path == store.path

set_name(name) ==
    /\ caller = "idle"
    /\ store' = [store EXCEPT !.name = name]
    /\ err' = "none"
    /\ UNCHANGED <<pool, units, results, caller, twin>>

\* a set_pool that makes a local store for every pool
StoreOfLocal(kind) == SynchronousDataStore

\* the store that set_pool constructs with each pool
StoreOf(kind) ==
    IF kind \in {"thread", "process"} THEN AsynchronousDataStore
    ELSE SynchronousDataStore

\* The units submitted before keep the pool and the store they were given:
\* they are marked stale.
set_pool(kind, n_par) ==
    /\ caller = "idle"
    /\ IF ~is_empty(store)
       THEN /\ err' = "pool after entries"
            /\ UNCHANGED <<pool, store, units>>
       ELSE IF kind \notin PoolKinds
       THEN /\ err' = "unknown pool"
            /\ UNCHANGED <<pool, store, units>>
       ELSE /\ store' = StoreOf(kind)
            /\ pool' = NewPool(kind, n_par)
            /\ units' = [i \in DOMAIN units |-> [units[i] EXCEPT !.stale = TRUE]]
            /\ err' = "none"
    /\ UNCHANGED <<results, caller, twin>>

(* --------------------------- units of work ----------------------------- *)
\* what apply_async is given: DataLogger._push/_dump/_reset and its arguments
NewUnit(kind, entry, value, arg, time) ==
    [ kind |-> kind, entry |-> entry, value |-> value,
      arg |-> arg,          \* push's time argument, NoTime for None
      time |-> time,        \* the key push passes on
      via |-> pool.kind,    \* the kind of pool it is submitted to
      stale |-> FALSE,      \* that pool and its store were replaced since
      decl |-> IF known(store, entry) THEN store.lockers[entry] ELSE 0,
                            \* the declaration of entry the call was made
                            \* under (0: not declared at the call)
      pc |-> "queued",
      lock |-> 0,           \* the lock get_locker returned (kept in the record
                            \* of a finished unit: it names the declaration
                            \* of the entry that the unit ran on)
      holds |-> FALSE,      \* inside the with block
      fs |-> << >>,         \* the handler list being iterated
      i |-> 0,              \* next handler's index, 0 before the list is fetched
      out |-> "",           \* the handle's outcome once ready
      calls |-> << >> ]     \* handler calls made: << [f, data, path] >>

\* the store a unit was submitted with: a store replaced by set_pool
\* had no entry and never gets one
UnitStore(u) ==
    IF u.stale THEN StoreOf(u.via) ELSE store

\* a unit that ends without leaving its with block
FinishedInside(u, out) ==
    [u EXCEPT !.pc = "done", !.out = out, !.fs = << >>, !.i = 0]

\* the handle is set; the unit's locals are gone
Finished(u, out) ==
    [u EXCEPT !.pc = "done", !.out = out, !.holds = FALSE,
              !.fs = << >>, !.i = 0]

\* store.get_locker(entry), the first thing a unit does: a KeyError ends it
get_locker(st, u) ==
    IF ~known(st, u.entry) THEN Finished(u, "KeyError")
    ELSE [u EXCEPT !.pc = "acquire", !.lock = st.lockers[u.entry]]

\* a _reset that clears before it calls the handlers
FirstPcClearFirst(kind) ==
    CASE kind = "push" -> "append_data"
      [] kind = "reset" -> "clear_data"
      [] OTHER -> "handlers"

\* entering the with block
FirstPc(kind) == IF kind = "push" THEN "append_data" ELSE "handlers"

\* leaving the handler loop
AfterHandlers(kind) == IF kind = "reset" THEN "clear_data" ELSE "release"

callables(st, u) ==
    CASE u.kind = "push" -> st.on_push_callables[u.entry]
      [] u.kind = "dump" -> st.on_dump_callables[u.entry]
      [] u.kind = "reset" -> st.on_reset_callables[u.entry]

\* f(entry, store.get_data(entry), path=store.get_path()); an exception of f
\* is caught and logged
Invoke(st, u, f) ==
    Append(u.calls, [f |-> f, data |-> get_data(st, u.entry), path |-> st.path])

\* one iteration of `for f in store.get_..._callables(entry)`
handler_step(st, u) ==
    LET fs == IF u.i = 0 THEN callables(st, u) ELSE u.fs
        idx == IF u.i = 0 THEN 1 ELSE u.i
    IN  IF idx > Len(fs)
        THEN [u EXCEPT !.fs = fs, !.i = idx, !.pc = AfterHandlers(u.kind)]
        ELSE [u EXCEPT !.fs = fs, !.i = idx + 1,
                       !.calls = Invoke(st, u, fs[idx]),
                       !.pc = IF idx = Len(fs) THEN AfterHandlers(u.kind)
                              ELSE "handlers"]

\* one step of a unit that was taken by a worker: get_locker, entering the
\* with block, a call of a store method that writes, a handler call, leaving
\* the with block
UnitStep(st, u) ==
    CASE u.pc = "get_locker" ->
            [st |-> st, u |-> get_locker(st, u)]
      [] u.pc = "acquire" ->
            [st |-> st, u |-> [u EXCEPT !.holds = TRUE, !.pc = FirstPc(u.kind)]]
      [] u.pc = "append_data" ->
            [st |-> append_data(st, u.entry, u.time, u.value),
             u |-> [u EXCEPT !.pc = "handlers"]]
      [] u.pc = "handlers" ->
            [st |-> st, u |-> handler_step(st, u)]
      [] u.pc = "clear_data" ->
            [st |-> clear_data(st, u.entry), u |-> [u EXCEPT !.pc = "release"]]
      [] u.pc = "release" ->
            [st |-> st, u |-> Finished(u, "ok")]

\* SyncPool.apply_async: func(*args) run to its end by the caller
RECURSIVE RunSteps(_, _)
RunSteps(st, u) ==
    IF u.pc = "done" THEN [st |-> st, u |-> u]
    ELSE LET r == UnitStep(st, u) IN RunSteps(r.st, r.u)

SyncPool_apply_async(st, u) == RunSteps(st, [u EXCEPT !.pc = "get_locker"])

\* a silent pool that runs func as SyncPool does
SilentPoolRuns(st, u) == SyncPool_apply_async(st, u)

\* SilentPool.apply_async: a ready handle, func not run
SilentPool_apply_async(st, u) == [st |-> st, u |-> Finished(u, "silent")]

\* self._pool.apply_async(...) then self._results.append(result), on
\* m = [st, units, results]
Submit(m, u) ==
    LET kind == pool.kind
        r == CASE kind = "sync" -> SyncPool_apply_async(m.st, u)
               [] kind = "silent" -> SilentPool_apply_async(m.st, u)
               [] OTHER -> [st |-> m.st, u |-> u]
    IN  [st |-> r.st,
         units |-> Append(m.units, r.u),
         results |-> Append(m.results, Len(m.units) + 1)]

Now == [st |-> store, units |-> units, results |-> results]

Commit(m) ==
    /\ store' = m.st
    /\ units' = m.units
    /\ results' = m.results

(* ----------------------------- the facade ------------------------------ *)
declare(entry, on_push, on_dump, on_reset) ==
    /\ caller = "idle"
    /\ IF has_entry(store, "entry")
       THEN /\ err' = "existing entry"
            /\ UNCHANGED store
       ELSE /\ Len(store.entries) < MaxDeclares
            /\ store' = declare_entry(store, entry, on_push, on_dump, on_reset)
            /\ err' = "none"
    /\ UNCHANGED <<pool, units, results, caller, twin>>

push(entry, value, time) ==
    /\ caller = "idle"
    /\ IF time = NoTime /\ ~known(store, entry)
       THEN /\ err' = "KeyError"
            /\ UNCHANGED <<store, units, results>>
       ELSE /\ Len(units) < MaxUnits
            /\ LET t == IF time # NoTime THEN time ELSE get_counter(store, entry)
               IN  Commit(Submit(Now, NewUnit("push", entry, value, time, t)))
            /\ err' = "none"
    /\ UNCHANGED <<pool, caller, twin>>

RECURSIVE SubmitDumps(_, _)
SubmitDumps(m, es) ==
    IF es = << >> THEN m
    ELSE SubmitDumps(Submit(m, NewUnit("dump", Head(es), 0, NoTime, NoTime)), Tail(es))

dump ==
    /\ caller = "idle"
    /\ Len(units) + Len(store.entries) <= MaxUnits
    /\ Commit(SubmitDumps(Now, store.entries))
    /\ err' = "none"
    /\ UNCHANGED <<pool, caller, twin>>

reset(entry) ==
    /\ caller = "idle"
    /\ Len(units) < MaxUnits
    /\ Commit(Submit(Now, NewUnit("reset", entry, 0, NoTime, NoTime)))
    /\ err' = "none"
    /\ UNCHANGED <<pool, caller, twin>>

\* the reads: pure in the store, KeyError(entry) when they raise
KeyError(entry) == ~known(store, entry)

get_entry_length(entry) == get_counter(store, entry)

\* [i[1] for i in sorted(data.items())]
serie(d) == LET ks == SortedSeq(DOMAIN d) IN [i \in DOMAIN ks |-> d[ks[i]]]

get_serie(entry) == serie(get_data(store, entry))

\* r.ready()
ready(i) == units[i].pc = "done"

\* a filter that drops every handle
NotReadyDropsAll(rs) == << >>

\* list(filter(lambda r: not r.ready(), self._results))
NotReady(rs) == SelectSeq(rs, LAMBDA i : ~ready(i))

\* wait(): the first pass of the loop
wait ==
    /\ caller = "idle"
    /\ results' = NotReady(results)
    /\ IF results' = << >>
       THEN /\ caller' = "idle"
            /\ err' = "none"
       ELSE /\ caller' = "waiting"
            /\ err' = "none"
    /\ UNCHANGED <<pool, store, units, twin>>

\* wait(): a pass after time.sleep(.1)
wait_poll ==
    /\ caller = "waiting"
    /\ results' = NotReady(results)
    /\ IF results' = << >>
       THEN /\ caller' = "idle"
            /\ err' = "none"
       ELSE UNCHANGED <<caller, err>>
    /\ UNCHANGED <<pool, store, units, twin>>

(* ----------------------------- the workers ----------------------------- *)
\* the units that occupy a worker of self._pool
Running == {i \in DOMAIN units : ~units[i].stale /\ units[i].pc \notin {"queued", "done"}}

\* a pool that hands any queued task to a worker at any time
CanStartAnyOrder(i) == units[i].pc = "queued"

\* A pool hands out its tasks in submission order, a ThreadPool to a free
\* worker.  (Of the units left in replaced pools, which all end at their
\* first step, any one may go next.)
CanStart(i) ==
    /\ units[i].pc = "queued"
    /\ \/ units[i].stale
       \/ /\ \A j \in 1..(i - 1) : ~units[j].stale => units[j].pc # "queued"
          /\ \/ pool.kind = "process"
             \/ Cardinality(Running) < pool.n

\* ThreadPool: a worker takes the task.  Pool: the task is pickled for a
\* worker process, which fails on the store argument (an
\* AsynchronousDataStore holds its Manager), and the handle gets the error.
take(u) ==
    IF u.via = "process" THEN Finished(u, "TypeError")
    ELSE [u EXCEPT !.pc = "get_locker"]

LockFree(l) == \A j \in DOMAIN units : ~(units[j].holds /\ units[j].lock = l)

start(i) ==
    /\ CanStart(i)
    /\ units' = [units EXCEPT ![i] = take(@)]
    /\ UNCHANGED <<pool, store, results, caller, err, twin>>

\* a worker performs the next step of its unit
work(i) ==
    /\ units[i].pc \notin {"queued", "done"}
    /\ units[i].pc = "acquire" => LockFree(units[i].lock)
    /\ LET r == UnitStep(UnitStore(units[i]), units[i])
       IN  /\ store' = IF units[i].stale THEN store ELSE r.st
           /\ units' = [units EXCEPT ![i] = r.u]
    /\ UNCHANGED <<pool, results, caller, err, twin>>

(* -------------------------- specifications ----------------------------- *)
\* A logger whose name and path are left as constructed: every pool, the
\* declarations, up to MaxUnits units of work.
Next ==
    \/ \E k \in PoolArgs, n \in NPars : set_pool(k, n)
    \/ \E e \in EntryNames, a \in DeclareArgs : declare(e, a[1], a[2], a[3])
    \/ \E e \in EntryNames, t \in Times \cup {NoTime} : push(e, Len(units) + 1, t)
    \/ dump
    \/ \E e \in EntryNames : reset(e)
    \/ wait
    \/ wait_poll
    \/ \E i \in DOMAIN units : start(i)
    \/ \E i \in DOMAIN units : work(i)

Spec == Init /\ [][Next]_vars

\* A logger that is kept on the pools that return a ready handle (where
\* wait() never sleeps).
NextInline ==
    \/ \E k \in InlineArgs, n \in NPars : set_pool(k, n)
    \/ \E e \in EntryNames, a \in DeclareArgs : declare(e, a[1], a[2], a[3])
    \/ \E e \in EntryNames, t \in Times \cup {NoTime} : push(e, Len(units) + 1, t)
    \/ dump
    \/ \E e \in EntryNames : reset(e)
    \/ wait

SpecInline == Init /\ [][NextInline]_vars

\* A logger that is also given names and paths, at any time, with up to
\* ConfigUnits units of work.
NextConfig ==
    \/ \E p \in Paths : set_path(p)
    \/ \E n \in LoggerNames : set_name(n)
    \/ \E k \in PoolArgs, n \in NPars : set_pool(k, n)
    \/ \E e \in EntryNames, a \in DeclareArgs : declare(e, a[1], a[2], a[3])
    \/ \E e \in EntryNames, t \in Times \cup {NoTime} :
          push(e, Len(units) + 1, t) /\ Len(units') <= ConfigUnits
    \/ dump /\ Len(units') <= ConfigUnits
    \/ \E e \in EntryNames : reset(e) /\ Len(units') <= ConfigUnits
    \/ wait
    \/ wait_poll
    \/ \E i \in DOMAIN units : start(i)
    \/ \E i \in DOMAIN units : work(i)

SpecConfig == Init /\ [][NextConfig]_vars

\* A logger on a thread or process pool whose workers keep running: a
\* worker that can take a task takes it, a worker whose unit can make its
\* next step (a handler call returns or raises; a lock that is free is
\* taken) makes it, and the sleep in wait() ends.  Every entry has handlers
\* for the three events and is pushed to without a key.
NextLive ==
    \/ \E k \in {"thread", "process"}, n \in NPars : set_pool(k, n)
    \/ \E e \in EntryNames : declare(e, <<"bad", "ok">>, <<"ok">>, <<"ok", "bad">>)
    \/ \E e \in EntryNames : push(e, Len(units) + 1, NoTime)
    \/ dump
    \/ \E e \in EntryNames : reset(e)
    \/ wait
    \/ wait_poll
    \/ \E i \in DOMAIN units : start(i)
    \/ \E i \in DOMAIN units : work(i)

Fairness ==
    /\ \A i \in 1..MaxUnits : WF_vars(i \in DOMAIN units /\ start(i))
    /\ \A i \in 1..MaxUnits : WF_vars(i \in DOMAIN units /\ work(i))
    /\ WF_vars(wait_poll)

SpecLive == Init /\ [][NextLive]_vars /\ Fairness

\* The two stores on their own: an AsynchronousDataStore and a
\* SynchronousDataStore that are given the same calls.
InitStores ==
    /\ pool = NewPool("thread", 5)
    /\ store = AsynchronousDataStore
    /\ twin = SynchronousDataStore
    /\ units = << >>
    /\ results = << >>
    /\ caller = "idle"
    /\ err = "none"

both_declare_entry(entry, on_push, on_dump, on_reset) ==
    /\ Len(store.entries) < MaxDeclares
    /\ store' = declare_entry(store, entry, on_push, on_dump, on_reset)
    /\ twin' = declare_entry(twin, entry, on_push, on_dump, on_reset)
    /\ UNCHANGED <<pool, units, results, caller, err>>

both_append_data(entry, time, value) ==
    /\ known(store, entry)
    /\ get_counter(twin, entry) < MaxAppends
    /\ store' = append_data(store, entry, time, value)
    /\ twin' = append_data(twin, entry, time, value)
    /\ UNCHANGED <<pool, units, results, caller, err>>

both_clear_data(entry) ==
    /\ known(store, entry)
    /\ store' = clear_data(store, entry)
    /\ twin' = clear_data(twin, entry)
    /\ UNCHANGED <<pool, units, results, caller, err>>

NextStores ==
    \/ \E e \in EntryNames, a \in DeclareArgs :
          both_declare_entry(e, a[1], a[2], a[3])
    \/ \E e \in EntryNames, k \in StoreKeys, v \in StoreValues :
          both_append_data(e, k, v)
    \/ \E e \in EntryNames : both_clear_data(e)

SpecStores == InitStores /\ [][NextStores]_vars

(* ------------------------- what the claims use ------------------------- *)
PoolKind == pool.kind

Range(seq) == {seq[i] : i \in DOMAIN seq}

Declared == DOMAIN store.counters

\* The data mapping and counter that the units 1..k leave when those that ran
\* on declaration l of entry e are applied one after the other, in submission
\* order: a push stores its value at its key and counts, a reset empties.
RECURSIVE Replay(_, _, _)
Replay(e, l, k) ==
    IF k = 0 THEN [data |-> EmptyMap, counter |-> 0]
    ELSE LET prev == Replay(e, l, k - 1)
             u == units[k]
         IN  IF u.entry = e /\ u.lock = l /\ u.out = "ok"
             THEN CASE u.kind = "push" ->
                          [data |-> Put(prev.data, u.time, u.value),
                           counter |-> prev.counter + 1]
                    [] u.kind = "reset" -> [data |-> EmptyMap, counter |-> 0]
                    [] OTHER -> prev
             ELSE prev

\* the calls a unit makes when it calls each handler of fs once, in order,
\* with the data mapping d
CallsOf(fs, d) == [j \in DOMAIN fs |-> [f |-> fs[j], data |-> d, path |-> store.path]]

Quiet == caller = "idle" /\ results = << >>

(* ------------------------------- C1 ------------------------------------ *)
\* C1: an entry e declared with no handlers, a pool that is not silent: after
\* N pushes without a key and then wait(), get_entry_length(e) = N and
\* get_serie(e) is the N values in push order.  (Stated for the sync and the
\* thread pool; under the process pool no unit runs at all.)
C1_PushesThenWait ==
    \A e \in Declared :
        ( /\ Quiet
          /\ PoolKind \in {"sync", "thread"}
          /\ Count(store.entries, e) = 1
          /\ store.on_push_callables[e] = << >>
          /\ Len(units) >= 1
          /\ \A i \in DOMAIN units :
                /\ units[i].kind = "push" /\ units[i].entry = e
                /\ units[i].arg = NoTime /\ ~units[i].stale
                /\ units[i].decl = store.lockers[e] )
        => /\ get_entry_length(e) = Len(units)
           /\ get_serie(e) = [i \in DOMAIN units |-> units[i].value]

(* ------------------------------- C2 ------------------------------------ *)
\* C2: declare(e, ...) on a name that is already declared raises and changes
\* nothing in the store; the entries list holds e once.
C2_DuplicateDeclareFails ==
    [][ \A e \in EntryNames :
          ( /\ has_entry(store, e)
            /\ \E a \in DeclareArgs : declare(e, a[1], a[2], a[3]) )
          => /\ err' = "existing entry"
             /\ store' = store
             /\ Count(store'.entries, e) = 1 ]_vars

(* ------------------------------- C3 ------------------------------------ *)
\* C3: push (with or without a key) and reset on a name never declared raise
\* an unknown-entry error to the caller and leave the store and the pending
\* results unchanged; get_entry_length and get_serie raise too.
C3_UnknownEntryFails ==
    [][ \A e \in EntryNames :
          ( /\ ~known(store, e)
            /\ \/ \E t \in Times \cup {NoTime} : push(e, Len(units) + 1, t)
               \/ reset(e) )
          => /\ KeyError(e)
             /\ err' = "KeyError"
             /\ store' = store
             /\ results' = results ]_vars

C5_WaitBarrier ==
    [][ /\ \A i \in DOMAIN units' : units'[i].pc # "done" => i \in Range(results')
        /\ (wait \/ wait_poll) /\ caller' = "idle" =>
              /\ results' = << >>
              /\ \A i \in DOMAIN units : units'[i].pc = "done"
        /\ \A i \in Range(results) \ Range(results') :
              /\ units[i].pc = "done"
              /\ wait \/ wait_poll
        /\ results = << >> /\ caller = "idle" /\ Len(units') = Len(units)
              => caller' = "idle" ]_vars

\* wait() has returned after sleeping for units run by a thread pool
C5_Witness ==
    /\ PoolKind = "thread" /\ Quiet
    /\ Len(units) = MaxUnits
    /\ \A i \in DOMAIN units : units[i].pc = "done" /\ units[i].out = "ok"

(* ------------------------------- C6 ------------------------------------ *)
\* C6: once an entry is declared, set_pool and set_path raise and change
\* nothing, no step changes the store variant, the pool or the root path,
\* and no step removes an entry.
C6_FrozenAfterDeclare ==
    [][ Len(store.entries) > 0 =>
          /\ store'.variant = store.variant
          /\ store'.path = store.path
          /\ pool' = pool
          /\ SubSeq(store'.entries, 1, Len(store.entries)) = store.entries
          /\ (\E p \in Paths : set_path(p)) =>
                err' = "path after entries" /\ store' = store
          /\ (\E k \in PoolArgs, n \in NPars : set_pool(k, n)) =>
                err' = "pool after entries" /\ store' = store ]_vars

\* a set_pool and a set_path that were refused
C6_Witness ==
    /\ Len(store.entries) > 0
    /\ err \in {"pool after entries", "path after entries"}
    /\ store.path = "p1" /\ PoolKind = "thread"

(* ------------------------------- C7 ------------------------------------ *)
\* C7: once an entry is declared, set_name raises and the name is unchanged.
C7_SetNameAfterDeclareFails ==
    [][ Len(store.entries) > 0 =>
          /\ store'.name = store.name
          /\ (\E n \in LoggerNames : set_name(n)) => err' # "none" ]_vars

(* ------------------------------- C8 ------------------------------------ *)
\* C8: before any declare, the path and the name that set_path and set_name
\* set stay until the next set_path or set_name, whatever configuration call
\* comes in between, set_pool included.
C8_ConfigurationKept ==
    [][ /\ store'.path # store.path => \E p \in Paths : set_path(p)
        /\ store'.name # store.name => \E n \in LoggerNames : set_name(n) ]_vars

C10_RaisingPushHandler ==
    \A i \in DOMAIN units :
        LET u == units[i] IN
        ( /\ u.kind = "push" /\ u.out = "ok"
          /\ Count(store.entries, u.entry) = 1
          /\ u.lock = store.lockers[u.entry]
          /\ \E j \in DOMAIN u.calls : u.calls[j].f = "bad" )
        => /\ ~u.holds
           /\ [j \in DOMAIN u.calls |-> u.calls[j].f] = store.on_push_callables[u.entry]
           /\ \A j \in DOMAIN u.calls :
                /\ u.time \in DOMAIN u.calls[j].data
                /\ u.calls[j].data[u.time] = u.value

(* ------------------------------- C11 ----------------------------------- *)
\* C11: under the silent pool, a push, dump or reset on declared entries
\* raises nothing, changes nothing in the store and calls no handler; the
\* unit of every handle the silent pool returned is complete from the call
\* on, with no handler call; and a wait() whose pending handles all come
\* from the silent pool returns on its first pass.
C11_SilentPool ==
    [][ PoolKind = "silent" =>
          /\ ( \/ \E e \in Declared, t \in Times \cup {NoTime} :
                     push(e, Len(units) + 1, t)
               \/ \E e \in Declared : reset(e)
               \/ dump )
             => /\ err' = "none"
                /\ store' = store
                /\ \A i \in (Len(units) + 1)..Len(units') :
                      /\ units'[i].pc = "done"
                      /\ units'[i].calls = << >>
                      /\ i \in Range(results')
          /\ \A i \in DOMAIN units' :
                units'[i].via = "silent" =>
                    ready(i)' /\ units'[i].calls = << >>
          /\ (wait /\ \A i \in Range(results) : units[i].via = "silent")
             => caller' = "idle" /\ results' = << >> ]_vars

\* wait() has returned after a push and a reset under the silent pool, on an
\* entry that has handlers
C11_Witness ==
    /\ PoolKind = "silent" /\ Quiet /\ Len(units) = 2
    /\ units[1].kind = "push" /\ units[2].kind = "reset"
    /\ \A i \in DOMAIN units :
          /\ units[i].via = "silent" /\ units[i].out = "silent"
          /\ units[i].entry \in Declared
          /\ Len(callables(store, units[i])) = 2
          /\ get_entry_length(units[i].entry) = 0

(* ------------------------------- C12 ----------------------------------- *)
\* what the store keeps for entry e
EntryState(st, e) ==
    [ data |-> st.data[e], counter |-> st.counters[e], locker |-> st.lockers[e],
      proxied |-> st.proxied[e],
      on_push |-> st.on_push_callables[e],
      on_dump |-> st.on_dump_callables[e],
      on_reset |-> st.on_reset_callables[e] ]

\* C12: under a thread pool with two workers or more, a step of a unit of
\* work on entry A changes nothing that the store keeps for another entry B
\* and hands its handlers A's data mapping; a unit that waits for its lock
\* waits only for a unit on its own entry; and every value in an entry's
\* data mapping was pushed to that entry, at that key.
C12_EntriesIndependent ==
    [][ (PoolKind = "thread" /\ pool.n >= 2) =>
          /\ \A i \in DOMAIN units :
                work(i) /\ ~units[i].stale =>
                  /\ \A e \in Declared \ {units[i].entry} :
                        EntryState(store', e) = EntryState(store, e)
                  /\ Len(units'[i].calls) > Len(units[i].calls) =>
                        units'[i].calls[Len(units'[i].calls)].data
                            = get_data(store, units[i].entry)
          /\ \A i, j \in DOMAIN units' :
                ( /\ units'[i].pc = "acquire" /\ units'[j].holds
                  /\ ~units'[i].stale /\ ~units'[j].stale
                  /\ units'[j].lock = units'[i].lock )
                => units'[j].entry = units'[i].entry
          /\ \A e \in DOMAIN store'.counters :
                \A k \in DOMAIN store'.data[e] :
                    \E i \in DOMAIN units' :
                        /\ units'[i].kind = "push" /\ units'[i].entry = e
                        /\ units'[i].time = k
                        /\ units'[i].value = store'.data[e][k] ]_vars

\* two workers inside the with blocks of two different entries at once
C12_Witness ==
    /\ PoolKind = "thread" /\ pool.n >= 2 /\ Len(units) = 2
    /\ units[1].entry # units[2].entry
    /\ \A i \in DOMAIN units :
          /\ units[i].kind = "push" /\ units[i].holds /\ ~units[i].stale
          /\ units[i].pc = "handlers" /\ Len(units[i].calls) = 1

(* ------------------------------- C13 ----------------------------------- *)
\* C13: in every reachable state at most one unit of work is inside the
\* with block of a given entry (so the handler calls of two units on one
\* entry never interleave, and no clear falls into a push's handler loop).
C13_MutualExclusion ==
    \A i, j \in DOMAIN units :
        ( /\ i # j
          /\ units[i].holds /\ units[j].holds
          /\ ~units[i].stale /\ ~units[j].stale )
        => units[i].entry # units[j].entry

(* ------------------------------- C14 ----------------------------------- *)
\* C14: after every sequence of declare_entry, append_data and clear_data
\* given to both stores, get_data and get_counter return the same from the
\* shared store as from the local one, for every entry.
C14_StoresEquivalent ==
    /\ DOMAIN store.counters = DOMAIN twin.counters
    /\ \A e \in DOMAIN store.counters :
          /\ get_data(store, e) = get_data(twin, e)
          /\ get_counter(store, e) = get_counter(twin, e)

(* ------------------------------- C15 ----------------------------------- *)
\* C15: units of work on one entry take the entry's lock in the order of
\* their submission under the sync pool (each unit has run to its end when
\* the call that submitted it returns) and under a thread pool with one
\* worker (when a unit takes the lock, every unit submitted before it on the
\* same entry is complete).
C15_SubmissionOrder ==
    [][ /\ \A i \in DOMAIN units' :
              units'[i].via = "sync" => units'[i].pc = "done"
        /\ \A i \in DOMAIN units :
              ( /\ PoolKind = "thread" /\ pool.n = 1
                /\ ~units[i].stale
                /\ units[i].pc = "acquire"
                /\ work(i) )
              => \A j \in 1..(i - 1) :
                    (~units[j].stale /\ units[j].entry = units[i].entry)
                    => units[j].pc = "done" ]_vars

\* one worker: the second unit on an entry is inside its with block, the
\* first one has run
C15_Witness ==
    /\ PoolKind = "thread" /\ pool.n = 1 /\ Len(units) = 2
    /\ units[1].entry = units[2].entry
    /\ ~units[1].stale /\ ~units[2].stale
    /\ units[1].out = "ok"
    /\ units[2].holds

\* two workers: the second unit on an entry has run while the first one has
\* not yet taken the lock
C15_Overtaking ==
    /\ PoolKind = "thread" /\ pool.n = 2 /\ Len(units) = 2
    /\ units[1].entry = units[2].entry
    /\ units[1].lock = units[2].lock
    /\ ~units[1].stale /\ ~units[2].stale
    /\ units[1].pc = "acquire"
    /\ units[2].out = "ok"

(* ------------------------------- C16 ----------------------------------- *)
Max(S) == CHOOSE x \in S : \A y \in S : x >= y

\* C16: a push without a key stores its value at the largest key of the
\* entry's data mapping plus one (at 0 in an empty mapping), a key that is
\* not in the mapping yet.  (Stated under the sync pool, where the data
\* mapping before a unit is what the units before it left.)
C16_DefaultKeyIsNext ==
    \A i \in DOMAIN units :
        LET u == units[i] IN
        ( /\ u.kind = "push" /\ u.arg = NoTime
          /\ u.via = "sync" /\ ~u.stale /\ u.out = "ok" )
        => LET d == Replay(u.entry, u.lock, i - 1).data
           IN  /\ u.time \notin DOMAIN d
               /\ u.time = IF DOMAIN d = {} THEN 0 ELSE Max(DOMAIN d) + 1

(* ------------------------------- C17 ----------------------------------- *)
\* the units that a step submits
Submitted == {i \in DOMAIN units' : i > Len(units)}

\* C17: dump() submits exactly one unit of work for every declared entry and
\* changes nothing in the store; under the sync pool each of these units has
\* called every on_dump handler of its entry, in list order, with the
\* entry's data mapping.
C17_DumpOnePerEntry ==
    [][ dump =>
          /\ \A i \in Submitted : units'[i].kind = "dump"
          /\ \A e \in Declared :
                Cardinality({i \in Submitted : units'[i].entry = e}) = 1
          /\ Cardinality(Submitted) = Cardinality(Declared)
          /\ store' = store
          /\ PoolKind = "sync" =>
                \A i \in Submitted :
                    /\ units'[i].out = "ok"
                    /\ units'[i].calls =
                          CallsOf(store.on_dump_callables[units'[i].entry],
                                  get_data(store, units'[i].entry)) ]_vars

(* ------------------------------- C18 ----------------------------------- *)
\* some worker can take a task or make a step
CanProgress == \E i \in DOMAIN units : ENABLED (start(i) \/ work(i))

\* C18: with workers that keep running and handlers that return or raise,
\* every unit of work submitted completes, with its lock released; in no
\* reachable state are the incomplete units all stuck; and a wait() that
\* sleeps returns.
C18_EveryUnitCompletes ==
    /\ \A i \in 1..MaxUnits :
          (Len(units) >= i)
              ~> (Len(units) >= i /\ units[i].pc = "done" /\ ~units[i].holds)
    /\ []((\E i \in DOMAIN units : units[i].pc # "done") => CanProgress)
    /\ (caller = "waiting") ~> (caller = "idle" /\ results = << >>)

\* wait() sleeps while one worker is inside a with block and another waits
\* for the same lock
C18_Witness ==
    /\ caller = "waiting" /\ Len(units) = 2
    /\ units[1].holds /\ units[2].pc = "acquire"
    /\ units[1].lock = units[2].lock

(* ------------------------------- C19 ----------------------------------- *)
Paired ==
    \/ PoolKind \in {"sync", "silent"} /\ store.variant = "local"
    \/ PoolKind \in {"thread", "process"} /\ store.variant = "shared"

C20_KeysAreCounted ==
    \A e \in Declared :
        ( /\ PoolKind = "sync"
          /\ \A i \in DOMAIN units :
                ( /\ units[i].kind = "push" /\ units[i].entry = e
                  /\ ~units[i].stale /\ units[i].out = "ok" )
                => units[i].arg = NoTime )
        => /\ DOMAIN get_data(store, e) = 0..(get_counter(store, e) - 1)
           /\ get_entry_length(e) = Len(get_serie(e))

\* a push without a key after a reset: one key, 0, and length 1
C20_Witness ==
    \E e \in Declared :
        /\ PoolKind = "sync" /\ Len(units) = 2
        /\ units[1].kind = "reset" /\ units[1].entry = e /\ units[1].out = "ok"
        /\ units[2].kind = "push" /\ units[2].entry = e /\ units[2].out = "ok"
        /\ units[2].arg = NoTime
        /\ DOMAIN get_data(store, e) = {0}
        /\ get_entry_length(e) = 1
=============================================================================
